---- MODULE Spec2Model ----
(***************************************************************************)
(* Transcript extraction pipeline of scribr (backend/app):                 *)
(*   - services/transcript.py : caption -> local Whisper -> remote chain   *)
(*   - routers/videos.py      : single-item, streaming-batch and           *)
(*                              non-streaming-batch endpoints, and the     *)
(*                              prepared-audio download token hand-off     *)
(*   - utils/cache.py         : Redis-backed cache with in-memory fallback *)
(*   - models/video.py, models/transcript.py : the rows the endpoints      *)
(*                              read and commit                            *)
(***************************************************************************)
EXTENDS Integers, Sequences, FiniteSets, TLC

VARIABLES
    db,            \* committed videos rows: has_transcript, transcript_status, transcript_error
    transcripts,   \* committed transcripts rows per video (their method tags)
    settings_provider, \* settings.transcription_provider
    req,           \* per request slot: handler position, session copy, locals
    redis_available, \* cache.py global _redis_available: "unset", "yes", "no"
    redis_store,   \* keys held by the Redis server: value and expiry instant
    memory_store,  \* cache.py global _memory_store
    now,           \* the clock, in seconds
    last,          \* the last cache call or download request and what it returned
    ideal,         \* per key: the most recent set and whether a delete followed it
    owner,         \* per token: the user prepare_all_audio stored in the entry
    served,        \* per token: number of successful downloads
    temp_dirs,     \* per token: the directory that holds its archive
    calc           \* a call of a pure function: its argument and what it returned

pipeVars == <<db, transcripts, settings_provider, req>>
cacheVars == <<redis_available, redis_store, memory_store, now>>
histVars == <<last, ideal, owner, served, temp_dirs>>
vars == <<db, transcripts, settings_provider, req,
          redis_available, redis_store, memory_store, now,
          last, ideal, owner, served, temp_dirs, calc>>

----------------------------------------------------------------------------
(* Bounds *)

NumVideos == 2
NumReqs == 2

Videos == 1..NumVideos
Reqs == 1..NumReqs

----------------------------------------------------------------------------
(* models/video.py, models/transcript.py *)

None == ""

NewVideo == [has_transcript |-> FALSE, status |-> "pending", error |-> None]

Statuses == {"pending", "extracting", "completed", "failed"}

\* Video.caption: the catalogue's "captions available" flag (static metadata)
CaptionFlag(v) == v = 1

\* (mutant) transcripts.video_id carries no unique constraint
UniqueViolation_NoConstraint(v) == FALSE

\* Transcript.video_id is unique=True: an INSERT of a second row for the
\* same video fails the flush with IntegrityError
UniqueViolation(v) == transcripts[v] # <<>>

AiMethods == {"ai", "whisper-mlx", "whisper-faster-whisper"}

----------------------------------------------------------------------------
(* Request slots *)

Pending == [kind |-> "pending", method |-> "", msg |-> ""]

Idle == [kind |-> "idle", pc |-> "idle", use_ai |-> FALSE, provider |-> None,
         videos |-> <<>>, i |-> 0, sess |-> [v \in Videos |-> NewVideo],
         fn |-> "", fallback |-> TRUE, trace |-> <<>>, ret |-> Pending,
         extracted |-> 0, extracted_ai |-> 0, failed |-> 0, already_completed |-> 0,
         events |-> <<>>, n_caption |-> 0, n_ai |-> 0, n_failed |-> 0,
         calls |-> 0, commits |-> 0,
         response |-> ""]

\* descending video ids of a set: ORDER BY published_at DESC
RECURSIVE SortedDesc(_)
SortedDesc(S) ==
    IF S = {} THEN <<>>
    ELSE LET m == CHOOSE x \in S : \A y \in S : y <= x
         IN <<m>> \o SortedDesc(S \ {m})

\* a finished request: its session and the locals of its last call are gone
Done(rec, response) ==
    [rec EXCEPT !.pc = "done", !.response = response, !.sess = Idle.sess,
                !.trace = <<>>, !.ret = Pending, !.fn = "", !.fallback = TRUE, !.i = 0,
                !.use_ai = FALSE, !.provider = None]

\* a request arrives in a free slot (slots are filled in order: they are
\* interchangeable)
CanStart(r) == req[r].pc = "idle" /\ \A q \in Reqs : q < r => req[q].pc # "idle"

----------------------------------------------------------------------------
(* services/transcript.py: the fallback chain *)

\* s[:n]
Slice(s, n) == IF Len(s) <= n THEN s ELSE SubSeq(s, 1, n)

\* t in s
Contains(s, t) ==
    \E i \in 1..(Len(s) - Len(t) + 1) : SubSeq(s, i, i + Len(t) - 1) = t

X10 == "xxxxxxxxxx"
X100 == X10 \o X10 \o X10 \o X10 \o X10 \o X10 \o X10 \o X10 \o X10 \o X10

\* a provider query parameter of 505 characters: the parameter is Optional[str]
\* with no length limit (routers/videos.py line 465)
LongProvider == "Bogus" \o X100 \o X100 \o X100 \o X100 \o X100

\* str.lower() on the provider names used here
Lower(p) ==
    CASE p = "SiliconFlow" -> "siliconflow"
      [] p = LongProvider -> "bogus" \o X100 \o X100 \o X100 \o X100 \o X100
      [] OTHER -> p

\* provider values a caller may pass (None = not given)
CallerProviders == {None, "SiliconFlow", LongProvider}

\* values of settings.transcription_provider ("replicate" is the default)
SettingsProviders == {"replicate", "local"}

\* _get_ai_transcription, lines 95-99
EffectiveProvider(provider) ==
    IF provider = None THEN Lower(settings_provider) ELSE Lower(provider)

MsgNoMethod == "No transcription method available. Download a Whisper model in settings, or configure a cloud API (Replicate/SiliconFlow)."
MsgUnknownProvider(p) == "Unknown transcription provider: " \o p
MsgDownloadFailed == "Failed to download audio from YouTube. The video may be restricted or unavailable."
MsgNoText == "No transcription result returned"
MsgNoTranscript == "No transcript available"
\* f"Unexpected error: {str(e)[:200]}", routers/videos.py line 546
MsgUnexpected(msg) == "Unexpected error: " \o Slice(msg, 200)
MsgRaw == "'NoneType' object has no attribute 'content'"
MsgOSError == "[Errno 28] No space left on device"

\* what the Replicate client raises in the cases modelled: the account has
\* no credit, or the request fails otherwise
ApiFailures == {"insufficient_credit", "api_error"}

RawError(failure) ==
    IF failure = "insufficient_credit"
    THEN "ReplicateError: Insufficient credit to run this model"
    ELSE "Connection reset by peer"

\* (mutant) every API failure is reported as an invalid token
ReplicateMessage_InvalidToken(error_msg) == "Replicate: Invalid API token"

\* _transcribe_with_replicate_sync, lines 175-183 (the messages modelled hold
\* no upper-case letter that error_msg.lower() would change into a match)
ReplicateMessage(error_msg) ==
    CASE Contains(error_msg, "Insufficient credit") ->
           "Replicate: Insufficient credit. Please add funds at replicate.com/account/billing"
      [] Contains(error_msg, "401") \/ Contains(error_msg, "unauthorized") ->
           "Replicate: Invalid API token"
      [] OTHER -> "Replicate API error: " \o Slice(error_msg, 200)

\* the TranscriptionError message of a failed API call of provider p
ApiErrorMessage(p, failure) ==
    IF p = "replicate" THEN ReplicateMessage(RawError(failure)) ELSE MsgNoText

\* how the API call of provider p can fail with the provider's TranscriptionError
ProviderFailures(p) == IF p = "replicate" THEN ApiFailures ELSE {"api_error"}

\* the audio download failed: replicate_transcribe.transcribe_audio raises
\* TranscriptionError (lines 221-223) and _get_ai_transcription re-raises it;
\* siliconflow_transcribe.transcribe_audio returns None (lines 204-206), which
\* _get_ai_transcription returns and extract_transcript dereferences (line 325)
NoAudio(p) ==
    IF p = "replicate"
    THEN [kind |-> "terr", method |-> "", msg |-> MsgDownloadFailed]
    ELSE [kind |-> "exc", method |-> "", msg |-> MsgRaw]

\* _get_backend(): the Whisper backend of the host
Backends == {"mlx", "faster-whisper"}

WhisperMethod(backend) ==
    IF backend = "mlx" THEN "whisper-mlx" ELSE "whisper-faster-whisper"

Ev(stage, ev) == [stage |-> stage, ev |-> ev]

Result(method) == [kind |-> "result", method |-> method, msg |-> ""]
NoResult == [kind |-> "none", method |-> "", msg |-> ""]
TErr(msg) == [kind |-> "terr", method |-> "", msg |-> msg]
Exc(msg) == [kind |-> "exc", method |-> "", msg |-> msg]

\* the function an endpoint calls, lines 518-521, 903-906, 1080-1083
CallFn(use_ai) == IF use_ai THEN "extract_transcript" ELSE "caption_only"

\* (mutant) a caption result does not end the call
AfterCaptionContent_FallsThrough(fn, fallback) ==
    IF fn = "extract_transcript" /\ fallback THEN "local_check" ELSE "finish"

\* extract_transcript lines 314-316 / extract_transcript_caption_only 346-348
AfterCaptionContent(fn, fallback) == "finish"

\* (mutant) the AI fallback is taken whatever the caller asked for
AfterCaptionNone_AlwaysFallback(fn, fallback) == "local_check"

\* extract_transcript lines 319-332 / extract_transcript_caption_only 350-351
AfterCaptionNone(fn, fallback) ==
    IF fn = "extract_transcript" /\ fallback THEN "local_check" ELSE "finish"

\* (mutant) the local stage is entered whether or not a model is installed
AfterLocalCheck_AlwaysRun(model_installed) == "local_run"

\* _get_local_whisper_transcription lines 66-72
AfterLocalCheck(model_installed) ==
    IF model_installed THEN "local_run" ELSE "remote_dispatch"

\* (mutant) an unknown provider falls back to replicate
KnownProvider_Default(p) == TRUE

\* _get_ai_transcription lines 103 and 109
KnownProvider(p) == p \in {"replicate", "siliconflow"}

\* _get_ai_transcription lines 116-123
ConfigError(model_installed, p) ==
    IF ~model_installed THEN MsgNoMethod ELSE MsgUnknownProvider(p)

\* _get_local_whisper_transcription lines 70-76 and _get_ai_transcription 90-92
AfterLocal(outcome) ==
    CASE outcome = "content" -> "finish"
      [] outcome = "error" -> "remote_dispatch"
      [] OTHER -> "finish"

\* A call in progress is [pc, trace, ret]: its position, the stage events so
\* far, and what it returns or raises once pc = "finish".

\* loop.run_in_executor(_executor, _extract_caption_sync, video_id) is submitted
CaptionStart(c) ==
    {[c EXCEPT !.pc = "caption_run", !.trace = Append(@, Ev("caption", "start"))]}

\* _extract_caption_sync returns a TranscriptResult or None (every failure is None)
CaptionEnd(c, fn, fallback) ==
    {LET next == IF o = "content" THEN AfterCaptionContent(fn, fallback)
                 ELSE AfterCaptionNone(fn, fallback)
     IN [c EXCEPT !.pc = next,
                  !.trace = Append(@, Ev("caption", o)),
                  !.ret = IF next = "finish"
                          THEN (IF o = "content" THEN Result("caption") ELSE NoResult)
                          ELSE @]
     : o \in {"content", "none"}}

\* _get_local_whisper_transcription: has_any_model_installed() probes the model
\* directory (either answer, at every call); the event says what it found:
\* "start" with a model (whisper_transcribe is called), "skipped" without
LocalCheck(c) ==
    {[c EXCEPT !.pc = AfterLocalCheck(model_installed),
               !.trace = Append(@, Ev("local", IF model_installed THEN "start" ELSE "skipped"))]
     : model_installed \in BOOLEAN}

\* whisper_local.transcribe_audio returns, raises its TranscriptionError
\* (selected model not installed, download failed, inference failed), or
\* raises anything else (tempfile.TemporaryDirectory, os.path.getsize)
LocalEnd(c) ==
    {[c EXCEPT !.pc = AfterLocal("content"),
               !.trace = Append(@, Ev("local", "content")),
               !.ret = Result(WhisperMethod(b))] : b \in Backends}
    \cup
    {[c EXCEPT !.pc = AfterLocal("error"), !.trace = Append(@, Ev("local", "error"))],
     [c EXCEPT !.pc = AfterLocal("exception"),
               !.trace = Append(@, Ev("local", "exception")),
               !.ret = Exc(MsgOSError)]}

\* _get_ai_transcription lines 94-123: provider dispatch; the else branch
\* probes has_any_model_installed() again
RemoteDispatch(c, provider) ==
    LET p == EffectiveProvider(provider)
        q == IF p \in {"replicate", "siliconflow"} THEN p ELSE "replicate"
    IN IF KnownProvider(p)
       THEN {[c EXCEPT !.pc = "remote_run", !.trace = Append(@, Ev(q, "start"))]}
       ELSE {[c EXCEPT !.pc = "finish",
                       !.trace = Append(@, Ev("config", IF model_installed THEN "has_model"
                                                        ELSE "no_model")),
                       !.ret = TErr(ConfigError(model_installed, p))]
             : model_installed \in BOOLEAN}

\* the provider in use at a remote stage that has started
RunningProvider(c) == c.trace[Len(c.trace)].stage

\* the provider's transcribe_audio downloads the audio: _download_audio_sync
\* returns a path, or None on every failure
RemoteDownload(c) ==
    LET p == RunningProvider(c)
    IN {[c EXCEPT !.pc = "remote_api", !.trace = Append(@, Ev(p, "api"))],
        [c EXCEPT !.pc = "finish", !.trace = Append(@, Ev(p, "no_audio")),
                  !.ret = NoAudio(p)]}

\* the provider's API call ends; extract_transcript lines 322-329
RemoteEnd(c) ==
    LET p == RunningProvider(c)
    IN {[c EXCEPT !.pc = "finish", !.trace = Append(@, Ev(p, "content")),
                  !.ret = Result("ai")],
        [c EXCEPT !.pc = "finish", !.trace = Append(@, Ev(p, "exception")),
                  !.ret = Exc(MsgOSError)]}
       \cup
       {[c EXCEPT !.pc = "finish", !.trace = Append(@, Ev(p, f)),
                  !.ret = TErr(ApiErrorMessage(p, f))] : f \in ProviderFailures(p)}

\* one step of a call
ChainNext(c, fn, fallback, provider) ==
    CASE c.pc = "caption" -> CaptionStart(c)
      [] c.pc = "caption_run" -> CaptionEnd(c, fn, fallback)
      [] c.pc = "local_check" -> LocalCheck(c)
      [] c.pc = "local_run" -> LocalEnd(c)
      [] c.pc = "remote_dispatch" -> RemoteDispatch(c, provider)
      [] c.pc = "remote_run" -> RemoteDownload(c)
      [] c.pc = "remote_api" -> RemoteEnd(c)
      [] OTHER -> {}

\* every way a call can end, from c on
RECURSIVE RunsFrom(_, _, _, _)
RunsFrom(c, fn, fallback, provider) ==
    IF c.pc = "finish" THEN {c}
    ELSE UNION {RunsFrom(n, fn, fallback, provider) : n \in ChainNext(c, fn, fallback, provider)}

NewCall == [pc |-> "caption", trace |-> <<>>, ret |-> Pending]

\* what the awaited call of an endpoint can return or raise; the call neither
\* reads nor writes the rows
Outcomes(r) ==
    {c.ret : c \in RunsFrom(NewCall, req[r].fn, req[r].fallback, req[r].provider)}

----------------------------------------------------------------------------
(* routers/videos.py: what a session commit does to the rows *)

\* the UPDATE a flush emits sets only the attributes whose value differs from
\* the one the session loaded or last flushed (async_sessionmaker has
\* expire_on_commit=False, so a session never re-reads a row on its own)
Merge(row, old, new) ==
    [has_transcript |-> IF new.has_transcript # old.has_transcript
                        THEN new.has_transcript ELSE row.has_transcript,
     status |-> IF new.status # old.status THEN new.status ELSE row.status,
     error |-> IF new.error # old.error THEN new.error ELSE row.error]

\* str(e)[:200] in the batch runs, lines 929 and 1105
BatchErrorMax == 200

\* transcript_error = Column(String(500)), models/video.py line 37
ErrorColumnSize == 500

\* (mutant) the column takes a value of any length
Overflows_Never(row) == FALSE

\* the value a flush sends for transcript_error does not fit the column:
\* PostgreSQL (the dialect of the models: UUID, ARRAY) refuses the statement
\* and the commit raises
Overflows(row) == Len(row.error) > ErrorColumnSize

\* the attribute values a handler assigns once the extraction call has ended
\* extract_video_transcript lines 523-547
SingleOutcome(old, ret) ==
    CASE ret.kind = "result" ->
           [has_transcript |-> TRUE, status |-> "completed", error |-> None]
      [] ret.kind = "none" ->
           [old EXCEPT !.status = "failed", !.error = MsgNoTranscript]
      [] ret.kind = "terr" ->
           [old EXCEPT !.status = "failed", !.error = ret.msg]
      [] OTHER ->
           [old EXCEPT !.status = "failed", !.error = MsgUnexpected(ret.msg)]

\* extract_transcripts_stream.generate_progress lines 908-930
StreamOutcome(old, ret) ==
    CASE ret.kind = "result" ->
           [old EXCEPT !.has_transcript = TRUE, !.status = "completed"]
      [] ret.kind = "none" ->
           [old EXCEPT !.status = "failed", !.error = MsgNoTranscript]
      [] OTHER ->
           [old EXCEPT !.status = "failed", !.error = Slice(ret.msg, BatchErrorMax)]

\* extract_all_channel_transcripts lines 1085-1106
BatchOutcome(old, ret) ==
    CASE ret.kind = "result" ->
           [old EXCEPT !.has_transcript = TRUE, !.status = "completed"]
      [] ret.kind = "none" ->
           [old EXCEPT !.status = "failed"]
      [] OTHER ->
           [old EXCEPT !.status = "failed", !.error = Slice(ret.msg, BatchErrorMax)]

\* lines 919-922 and 1096-1099: which counter an item adds to
CounterOf(ret) ==
    CASE ret.kind = "result" /\ ret.method \in AiMethods -> "extracted_ai"
      [] ret.kind = "result" -> "extracted"
      [] OTHER -> "failed"

\* (mutant) the has_transcript test is dropped
AlreadyHasTranscript_Never(row) == FALSE

\* line 485 (and 896, 1070): the has_transcript test on the session's copy
AlreadyHasTranscript(row) == row.has_transcript

\* the WHERE clause of the batch queries, lines 861-875 and 1042-1058;
\* sel = {} stands for video_ids not given
Selected(use_ai, sel) ==
    {v \in Videos :
        /\ db[v].has_transcript = FALSE
        /\ db[v].status # "extracting"
        /\ (sel # {} => v \in sel)
        /\ ((~use_ai /\ sel = {}) => CaptionFlag(v))}

Cur(r) == req[r].videos[req[r].i]

----------------------------------------------------------------------------
(* routers/videos.py: POST /videos/{video_id}/extract-transcript *)

\* lines 469-482: the ownership query loads the row into the session
SingleStart(r) ==
    /\ CanStart(r)
    /\ \E v \in Videos, use_ai \in BOOLEAN, provider \in CallerProviders :
         /\ (~use_ai => provider = None)
         /\ req' = [req EXCEPT ![r] =
                [Idle EXCEPT !.kind = "single", !.pc = "loaded", !.use_ai = use_ai,
                             !.provider = provider, !.videos = <<v>>, !.i = 1,
                             !.sess = [Idle.sess EXCEPT ![v] = db[v]]]]
    /\ UNCHANGED <<db, transcripts, settings_provider>>
    /\ UNCHANGED <<cacheVars, histVars, calc>>

\* lines 484-513: return early, or mark the video extracting and commit
SingleBegin(r) ==
    /\ req[r].kind = "single" /\ req[r].pc = "loaded"
    /\ LET v == Cur(r)
           old == req[r].sess[v]
           new == [old EXCEPT !.status = "extracting", !.error = None]
       IN IF AlreadyHasTranscript(old)
          THEN /\ req' = [req EXCEPT ![r] = Done(@, "unchanged")]
               /\ UNCHANGED db
          ELSE /\ db' = [db EXCEPT ![v] = Merge(@, old, new)]
               /\ req' = [req EXCEPT ![r].pc = "extracting", ![r].sess[v] = new,
                                     ![r].fn = CallFn(req[r].use_ai),
                                     ![r].calls = @ + 1,
                                     ![r].commits = @ + 1]
    /\ UNCHANGED <<transcripts, settings_provider>>
    /\ UNCHANGED <<cacheVars, histVars, calc>>

\* a finished request that keeps the record of its call
Kept(rec, response) ==
    [Done(rec, response) EXCEPT !.trace = rec.trace, !.ret = rec.ret]

\* the request ends, keeping the record of its call or not
End(rec, response, keep) == IF keep THEN Kept(rec, response) ELSE Done(rec, response)

\* lines 523-550: record the outcome ret of the call, commit, refresh
SingleCommit(r, ret, keep) ==
    LET v == Cur(r)
        old == req[r].sess[v]
        new == SingleOutcome(old, ret)
    IN IF (ret.kind = "result" /\ UniqueViolation(v)) \/ Overflows(new)
       THEN \* IntegrityError or DataError out of db.commit(): the request fails
          /\ req' = [req EXCEPT ![r] = End(@, "error", keep)]
          /\ UNCHANGED <<db, transcripts>>
       ELSE
          /\ db' = [db EXCEPT ![v] = Merge(@, old, new)]
          /\ transcripts' = IF ret.kind = "result"
                            THEN [transcripts EXCEPT ![v] = Append(@, ret.method)]
                            ELSE transcripts
          /\ req' = [req EXCEPT ![r] = End([@ EXCEPT !.commits = @ + 1], "ok", keep)]

\* lines 516-550: the call and what follows it
SingleFinish(r) ==
    /\ req[r].kind = "single" /\ req[r].pc = "extracting"
    /\ \E ret \in Outcomes(r) : SingleCommit(r, ret, FALSE)
    /\ UNCHANGED settings_provider
    /\ UNCHANGED <<cacheVars, histVars, calc>>

\* lines 518-521: the awaited call advances by one stage event
SingleCallStep(r) ==
    /\ req[r].kind = "single"
    /\ req[r].pc \in {"extracting", "caption_run", "local_check", "local_run",
                      "remote_dispatch", "remote_run", "remote_api"}
    /\ \E c \in ChainNext([pc |-> IF req[r].pc = "extracting" THEN NewCall.pc ELSE req[r].pc,
                           trace |-> req[r].trace, ret |-> req[r].ret],
                          req[r].fn, req[r].fallback, req[r].provider) :
         req' = [req EXCEPT ![r].pc = c.pc, ![r].trace = c.trace, ![r].ret = c.ret]
    /\ UNCHANGED <<db, transcripts, settings_provider>>
    /\ UNCHANGED <<cacheVars, histVars, calc>>

\* lines 523-550, once the call has returned or raised
SingleCallEnd(r) ==
    /\ req[r].kind = "single" /\ req[r].pc = "finish"
    /\ SingleCommit(r, req[r].ret, TRUE)
    /\ UNCHANGED settings_provider
    /\ UNCHANGED <<cacheVars, histVars, calc>>

----------------------------------------------------------------------------
(* routers/videos.py: GET /channels/{channel_id}/extract-transcripts-stream *)

\* line 894: the progress event of item i (current = i + 1 of enumerate)
ProgressEvent(r) ==
    [status |-> "extracting", current |-> req[r].i, total |-> Len(req[r].videos),
     extracted |-> req[r].extracted, extracted_ai |-> req[r].extracted_ai,
     failed |-> req[r].failed]

CompleteEvent(extracted, extracted_ai, failed, total) ==
    [status |-> "complete", current |-> 0, total |-> total,
     extracted |-> extracted, extracted_ai |-> extracted_ai, failed |-> failed]

\* lines 858-885: run the query; an empty selection streams one event
StreamStart(r) ==
    /\ CanStart(r)
    /\ \E use_ai \in BOOLEAN, sel \in SUBSET Videos :
         LET q == Selected(use_ai, sel)
         IN req' = [req EXCEPT ![r] =
                IF q = {}
                THEN Done([Idle EXCEPT !.kind = "stream",
                                       !.events = <<CompleteEvent(0, 0, 0, 0)>>], "ok")
                ELSE [Idle EXCEPT !.kind = "stream", !.pc = "gen_top", !.use_ai = use_ai,
                                  !.videos = SortedDesc(q), !.i = 1,
                                  !.sess = [v \in Videos |->
                                               IF v \in q THEN db[v] ELSE NewVideo]]]
    /\ UNCHANGED <<db, transcripts, settings_provider>>
    /\ UNCHANGED <<cacheVars, histVars, calc>>

\* the consumer of the stream of r has gone: the next send fails
Disconnected(r) == req[r].response = "disconnected"

\* line 894: the progress event of item i is yielded; with the consumer gone
\* the generator ends there
StreamYield(r) ==
    /\ req[r].kind = "stream" /\ req[r].pc = "gen_top"
    /\ req[r].i <= Len(req[r].videos)
    /\ req' = IF Disconnected(r)
              THEN [req EXCEPT ![r] = Done(@, "disconnected")]
              ELSE [req EXCEPT ![r].pc = "gen_item",
                               ![r].events = Append(@, ProgressEvent(r))]
    /\ UNCHANGED <<db, transcripts, settings_provider>>
    /\ UNCHANGED <<cacheVars, histVars, calc>>

\* lines 896-900: skip, or mark the item extracting and commit
StreamItemBegin(r) ==
    /\ req[r].kind = "stream" /\ req[r].pc = "gen_item"
    /\ LET v == Cur(r)
           old == req[r].sess[v]
           new == [old EXCEPT !.status = "extracting"]
       IN IF AlreadyHasTranscript(old)
          THEN /\ req' = [req EXCEPT ![r].pc = "gen_top", ![r].i = @ + 1]
               /\ UNCHANGED db
          ELSE /\ db' = [db EXCEPT ![v] = Merge(@, old, new)]
               /\ req' = [req EXCEPT ![r].pc = "extracting", ![r].sess[v] = new,
                                     ![r].fn = CallFn(req[r].use_ai),
                                     ![r].calls = @ + 1,
                                     ![r].commits = @ + 1]
    /\ UNCHANGED <<transcripts, settings_provider>>
    /\ UNCHANGED <<cacheVars, histVars, calc>>

\* lines 908-932: record the outcome, count it, commit
StreamItemFinish(r) ==
    /\ req[r].kind = "stream" /\ req[r].pc = "extracting"
    /\ \E ret \in Outcomes(r) :
       LET v == Cur(r)
           old == req[r].sess[v]
           new == StreamOutcome(old, ret)
           c == CounterOf(ret)
           counted == [req[r] EXCEPT
                         !.extracted = IF c = "extracted" THEN @ + 1 ELSE @,
                         !.extracted_ai = IF c = "extracted_ai" THEN @ + 1 ELSE @,
                         !.failed = IF c = "failed" THEN @ + 1 ELSE @,
                         !.n_caption = IF ret.kind = "result" /\ ret.method = "caption"
                                       THEN @ + 1 ELSE @,
                         !.n_ai = IF ret.kind = "result" /\ ret.method # "caption"
                                  THEN @ + 1 ELSE @,
                         !.n_failed = IF ret.kind # "result" THEN @ + 1 ELSE @]
       IN IF ret.kind = "result" /\ UniqueViolation(v)
          THEN \* IntegrityError out of db.commit() ends the generator
               /\ req' = [req EXCEPT ![r] = Done(counted, "error")]
               /\ UNCHANGED <<db, transcripts>>
          ELSE /\ db' = [db EXCEPT ![v] = Merge(@, old, new)]
               /\ transcripts' = IF ret.kind = "result"
                                 THEN [transcripts EXCEPT ![v] = Append(@, ret.method)]
                                 ELSE transcripts
               /\ req' = [req EXCEPT ![r] = [counted EXCEPT !.pc = "gen_top",
                                                            !.i = @ + 1,
                                                            !.sess[v] = new,
                                                            !.fn = "",
                                                            !.commits = @ + 1]]
    /\ UNCHANGED settings_provider
    /\ UNCHANGED <<cacheVars, histVars, calc>>

\* line 935: the completion event
StreamComplete(r) ==
    /\ req[r].kind = "stream" /\ req[r].pc = "gen_top"
    /\ req[r].i > Len(req[r].videos)
    /\ req' = IF Disconnected(r)
              THEN [req EXCEPT ![r] = Done(@, "disconnected")]
              ELSE [req EXCEPT ![r] = Done([@ EXCEPT !.events = Append(@,
                              CompleteEvent(req[r].extracted, req[r].extracted_ai,
                                            req[r].failed, Len(req[r].videos)))], "ok")]
    /\ UNCHANGED <<db, transcripts, settings_provider>>
    /\ UNCHANGED <<cacheVars, histVars, calc>>

\* what the server does with the response of a stream whose consumer goes
\* while the generator awaits the extraction: it cancels the generator at that
\* await (CancelledError is not an Exception: no handler of lines 926-929 runs
\* and nothing more is committed), or it notices at the next send only
DisconnectOutcomes == {"cancel", "next_send"}

\* the consumer of the stream disconnects while an item is being extracted
StreamDisconnect(r) ==
    /\ req[r].kind = "stream" /\ req[r].pc = "extracting" /\ ~Disconnected(r)
    /\ \E o \in DisconnectOutcomes :
         req' = IF o = "cancel"
                THEN [req EXCEPT ![r] = Done(@, "disconnected")]
                ELSE [req EXCEPT ![r].response = "disconnected"]
    /\ UNCHANGED <<db, transcripts, settings_provider>>
    /\ UNCHANGED <<cacheVars, histVars, calc>>

----------------------------------------------------------------------------
(* routers/videos.py: POST /channels/{channel_id}/extract-all-transcripts *)

\* lines 1039-1067
BatchStart(r) ==
    /\ CanStart(r)
    /\ \E use_ai \in BOOLEAN, provider \in CallerProviders, sel \in SUBSET Videos :
         /\ (~use_ai => provider = None)
         /\ LET q == Selected(use_ai, sel)
            IN req' = [req EXCEPT ![r] =
                   [Idle EXCEPT !.kind = "batch", !.pc = "batch_top", !.use_ai = use_ai,
                                !.provider = provider,
                                !.videos = SortedDesc(q), !.i = 1,
                                !.sess = [v \in Videos |->
                                             IF v \in q THEN db[v] ELSE NewVideo]]]
    /\ UNCHANGED <<db, transcripts, settings_provider>>
    /\ UNCHANGED <<cacheVars, histVars, calc>>

\* lines 1069-1076
BatchItemBegin(r) ==
    /\ req[r].kind = "batch" /\ req[r].pc = "batch_top"
    /\ req[r].i <= Len(req[r].videos)
    /\ LET v == Cur(r)
           old == req[r].sess[v]
           new == [old EXCEPT !.status = "extracting"]
       IN IF AlreadyHasTranscript(old)
          THEN /\ req' = [req EXCEPT ![r].i = @ + 1,
                                     ![r].already_completed = @ + 1]
               /\ UNCHANGED db
          ELSE /\ db' = [db EXCEPT ![v] = Merge(@, old, new)]
               /\ req' = [req EXCEPT ![r].pc = "extracting", ![r].sess[v] = new,
                                     ![r].fn = CallFn(req[r].use_ai),
                                     ![r].calls = @ + 1,
                                     ![r].commits = @ + 1]
    /\ UNCHANGED <<transcripts, settings_provider>>
    /\ UNCHANGED <<cacheVars, histVars, calc>>

\* lines 1085-1108
BatchItemFinish(r) ==
    /\ req[r].kind = "batch" /\ req[r].pc = "extracting"
    /\ \E ret \in Outcomes(r) :
       LET v == Cur(r)
           old == req[r].sess[v]
           new == BatchOutcome(old, ret)
           c == CounterOf(ret)
           counted == [req[r] EXCEPT
                         !.extracted = IF c = "extracted" THEN @ + 1 ELSE @,
                         !.extracted_ai = IF c = "extracted_ai" THEN @ + 1 ELSE @,
                         !.failed = IF c = "failed" THEN @ + 1 ELSE @,
                         !.n_caption = IF ret.kind = "result" /\ ret.method = "caption"
                                       THEN @ + 1 ELSE @,
                         !.n_ai = IF ret.kind = "result" /\ ret.method # "caption"
                                  THEN @ + 1 ELSE @,
                         !.n_failed = IF ret.kind # "result" THEN @ + 1 ELSE @]
       IN IF ret.kind = "result" /\ UniqueViolation(v)
          THEN /\ req' = [req EXCEPT ![r] = Done(counted, "error")]
               /\ UNCHANGED <<db, transcripts>>
          ELSE /\ db' = [db EXCEPT ![v] = Merge(@, old, new)]
               /\ transcripts' = IF ret.kind = "result"
                                 THEN [transcripts EXCEPT ![v] = Append(@, ret.method)]
                                 ELSE transcripts
               /\ req' = [req EXCEPT ![r] = [counted EXCEPT !.pc = "batch_top",
                                                            !.i = @ + 1,
                                                            !.sess[v] = new,
                                                            !.fn = "",
                                                            !.commits = @ + 1]]
    /\ UNCHANGED settings_provider
    /\ UNCHANGED <<cacheVars, histVars, calc>>

\* lines 1110-1116
BatchReturn(r) ==
    /\ req[r].kind = "batch" /\ req[r].pc = "batch_top"
    /\ req[r].i > Len(req[r].videos)
    /\ req' = [req EXCEPT ![r] = Done(@, "ok")]
    /\ UNCHANGED <<db, transcripts, settings_provider>>
    /\ UNCHANGED <<cacheVars, histVars, calc>>

----------------------------------------------------------------------------
(* services/transcript.py: calls of the chain, stage by stage *)

\* an endpoint calls the function it chose with the default use_ai_fallback,
\* or extract_transcript is called with an explicit use_ai_fallback
CallStart(r) ==
    /\ CanStart(r)
    /\ \E use_ai \in BOOLEAN, direct \in BOOLEAN, provider \in CallerProviders :
         /\ (~use_ai => provider = None)
         /\ req' = [req EXCEPT ![r] =
                [Idle EXCEPT !.kind = "call", !.pc = "caption", !.use_ai = use_ai,
                             !.provider = provider, !.calls = 1,
                             !.fn = IF direct THEN "extract_transcript" ELSE CallFn(use_ai),
                             !.fallback = IF direct THEN use_ai ELSE TRUE]]
    /\ UNCHANGED <<db, transcripts, settings_provider>>
    /\ UNCHANGED <<cacheVars, histVars, calc>>

\* the next stage event of a call
CallStep(r) ==
    /\ req[r].kind = "call"
    /\ \E c \in ChainNext([pc |-> req[r].pc, trace |-> req[r].trace, ret |-> req[r].ret],
                          req[r].fn, req[r].fallback, req[r].provider) :
         req' = [req EXCEPT ![r].pc = c.pc, ![r].trace = c.trace, ![r].ret = c.ret]
    /\ UNCHANGED <<db, transcripts, settings_provider>>
    /\ UNCHANGED <<cacheVars, histVars, calc>>

\* the call returns or raises to its caller
CallReturn(r) ==
    /\ req[r].kind = "call" /\ req[r].pc = "finish"
    /\ req' = [req EXCEPT ![r].pc = "returned",
                          ![r].response = IF req[r].ret.kind \in {"result", "none"}
                                          THEN "ok" ELSE "error"]
    /\ UNCHANGED <<db, transcripts, settings_provider>>
    /\ UNCHANGED <<cacheVars, histVars, calc>>

----------------------------------------------------------------------------
(* utils/cache.py *)

Keys == {"k1"}
Values == {"a", "b"}
Users == {"u1", "u2"}
NoUser == "nobody"

\* DOWNLOAD_TOKEN_TTL, routers/videos.py line 647
DOWNLOAD_TOKEN_TTL == 600

\* the prefix of download_token_cache, line 174
Prefix == "download_token:"

\* Cache._key, lines 72-74
FullKey(key) == <<Prefix, key>>

FullKeys == {FullKey(k) : k \in Keys}

NoEntry == [present |-> FALSE]
Absent == [found |-> FALSE]
Found(v) == [found |-> TRUE, value |-> v]

\* json.dumps / json.loads on the values stored here
JsonDumps(v) == <<"json", v>>
JsonLoads(d) == d[2]

\* the module globals a call works on; a call returns them as it leaves them,
\* with its return value and the store that served it
CacheState == [available |-> redis_available, redis |-> redis_store, memory |-> memory_store]

\* _get_redis, lines 19-45: reachable says whether redis_url is configured and
\* the server answers the first ping
GetRedis(available, reachable) ==
    CASE available = "no" -> [client |-> FALSE, available |-> "no"]
      [] available = "yes" -> [client |-> TRUE, available |-> "yes"]
      [] OTHER -> IF reachable THEN [client |-> TRUE, available |-> "yes"]
                  ELSE [client |-> FALSE, available |-> "no"]

\* _cleanup_expired_memory, lines 52-57
CleanupExpired(store) ==
    [k \in FullKeys |->
        IF store[k].present /\ store[k].expires < now THEN NoEntry ELSE store[k]]

\* what a Redis GET sees: a key set with SETEX is gone once its time has passed
RedisGet(store, k) ==
    IF store[k].present /\ ~(now > store[k].expires)
    THEN Found(JsonLoads(store[k].data)) ELSE Absent

\* Cache.set, lines 76-104; ok says whether the Redis command succeeds
CacheSet(s, key, value, ttl, reachable, ok) ==
    LET g == GetRedis(s.available, reachable)
        k == FullKey(key)
    IN IF g.client /\ ok
       THEN [available |-> g.available,
             redis |-> [s.redis EXCEPT ![k] =
                          [present |-> TRUE, data |-> JsonDumps(value), expires |-> now + ttl]],
             memory |-> s.memory,
             backend |-> "redis", ret |-> TRUE]
       ELSE [available |-> g.available,
             redis |-> s.redis,
             memory |-> [CleanupExpired(s.memory) EXCEPT ![k] =
                           [present |-> TRUE, value |-> value, expires |-> now + ttl]],
             backend |-> "memory", ret |-> TRUE]

\* Cache.get, lines 106-133
CacheGet(s, key, reachable, ok) ==
    LET g == GetRedis(s.available, reachable)
        k == FullKey(key)
        swept == CleanupExpired(s.memory)
    IN IF g.client /\ ok
       THEN [available |-> g.available, redis |-> s.redis, memory |-> s.memory,
             backend |-> "redis", ret |-> RedisGet(s.redis, k)]
       ELSE [available |-> g.available, redis |-> s.redis, memory |-> swept,
             backend |-> "memory",
             ret |-> IF swept[k].present THEN Found(swept[k].value) ELSE Absent]

\* Cache.delete, lines 135-158
CacheDelete(s, key, reachable, ok) ==
    LET g == GetRedis(s.available, reachable)
        k == FullKey(key)
    IN IF g.client /\ ok
       THEN [available |-> g.available,
             redis |-> [s.redis EXCEPT ![k] = NoEntry],
             memory |-> s.memory, backend |-> "redis", ret |-> TRUE]
       ELSE [available |-> g.available, redis |-> s.redis,
             memory |-> [s.memory EXCEPT ![k] = NoEntry],
             backend |-> "memory", ret |-> TRUE]

\* Cache.exists, lines 160-170
CacheExists(s, key, reachable, ok) ==
    LET g == CacheGet(s, key, reachable, ok)
    IN [g EXCEPT !.ret = g.ret.found]

Apply(res) ==
    /\ redis_available' = res.available
    /\ redis_store' = res.redis
    /\ memory_store' = res.memory

\* the instants the clock takes: a few seconds around each multiple of the
\* token lifetime
MaxSkew == 1
MaxPeriods == 2

Instants == {a + DOWNLOAD_TOKEN_TTL * b : a \in 0..MaxSkew, b \in 0..MaxPeriods}

TTLs == {1, DOWNLOAD_TOKEN_TTL}

Tick ==
    /\ \E t \in Instants : t > now /\ now' = t
    /\ last' = [op |-> "tick", flip |-> ~last.flip]
    /\ UNCHANGED <<redis_available, redis_store, memory_store, ideal, owner, served, temp_dirs>>
    /\ UNCHANGED <<pipeVars, calc>>

Set ==
    /\ \E key \in Keys, value \in Values, ttl \in TTLs, reachable \in BOOLEAN, ok \in BOOLEAN :
         LET res == CacheSet(CacheState, key, value, ttl, reachable, ok)
         IN /\ Apply(res)
            /\ last' = [op |-> "set", flip |-> ~last.flip, key |-> key, ret |-> res.ret,
                        backend |-> res.backend]
            /\ ideal' = [ideal EXCEPT ![key] =
                           [present |-> TRUE, value |-> value, expires |-> now + ttl]]
    /\ UNCHANGED <<now, owner, served, temp_dirs>>
    /\ UNCHANGED <<pipeVars, calc>>

Get ==
    /\ \E key \in Keys, reachable \in BOOLEAN, ok \in BOOLEAN :
         LET res == CacheGet(CacheState, key, reachable, ok)
         IN /\ Apply(res)
            /\ last' = [op |-> "get", flip |-> ~last.flip, key |-> key, ret |-> res.ret,
                        backend |-> res.backend]
    /\ UNCHANGED <<now, ideal, owner, served, temp_dirs>>
    /\ UNCHANGED <<pipeVars, calc>>

Exists ==
    /\ \E key \in Keys, reachable \in BOOLEAN, ok \in BOOLEAN :
         LET res == CacheExists(CacheState, key, reachable, ok)
         IN /\ Apply(res)
            /\ last' = [op |-> "exists", flip |-> ~last.flip, key |-> key, ret |-> res.ret,
                        backend |-> res.backend]
    /\ UNCHANGED <<now, ideal, owner, served, temp_dirs>>
    /\ UNCHANGED <<pipeVars, calc>>

Delete ==
    /\ \E key \in Keys, reachable \in BOOLEAN, ok \in BOOLEAN :
         LET res == CacheDelete(CacheState, key, reachable, ok)
         IN /\ Apply(res)
            /\ last' = [op |-> "delete", flip |-> ~last.flip, key |-> key, ret |-> res.ret,
                        backend |-> res.backend]
            /\ ideal' = [ideal EXCEPT ![key] = NoEntry]
    /\ UNCHANGED <<now, owner, served, temp_dirs>>
    /\ UNCHANGED <<pipeVars, calc>>

----------------------------------------------------------------------------
(* routers/videos.py: the download token of a prepared archive *)

\* str(current_user.id)
Str(u) == <<"str", u>>

\* the dict stored under the token, lines 784-789
ZipInfo(u) == [user_id |-> Str(u), filename |-> "audio.zip"]

\* prepare_all_audio, lines 780-792: a fresh uuid4 token is stored for the
\* requesting user once the archive is written
StoreToken(token, u) ==
    /\ owner[token] = NoUser
    /\ \E reachable \in BOOLEAN, ok \in BOOLEAN :
         LET res == CacheSet(CacheState, token, ZipInfo(u), DOWNLOAD_TOKEN_TTL, reachable, ok)
         IN /\ Apply(res)
            /\ last' = [op |-> "prepare", flip |-> ~last.flip, key |-> token, user |-> u]
            /\ ideal' = [ideal EXCEPT ![token] =
                           [present |-> TRUE, value |-> ZipInfo(u),
                            expires |-> now + DOWNLOAD_TOKEN_TTL]]
    /\ owner' = [owner EXCEPT ![token] = u]
    /\ temp_dirs' = [temp_dirs EXCEPT ![token] = "exists"]
    /\ UNCHANGED <<now, served>>

\* prepare_all_audio from the archive on, its progress events left out
Prepare ==
    /\ \E token \in Keys, u \in Users : StoreToken(token, u)
    /\ UNCHANGED <<pipeVars, calc>>

\* (mutant) no ownership check
OwnedBy_Anyone(zip_info, u) == TRUE

\* the ownership test, line 821
OwnedBy(zip_info, u) == zip_info.user_id = Str(u)

\* the most downloads of one token that are counted
MaxServed == 2

\* download_prepared_audio, lines 808-842
Download ==
    /\ \E token \in Keys, u \in Users, r1 \in BOOLEAN, ok1 \in BOOLEAN, ok2 \in BOOLEAN :
         /\ served[token] < MaxServed
         /\ LET got == CacheGet(CacheState, token, r1, ok1)
                zip_info == got.ret
                del == CacheDelete(got, token, r1, ok2)
            IN IF ~zip_info.found
               THEN /\ Apply(got)
                    /\ last' = [op |-> "download", flip |-> ~last.flip, key |-> token,
                                user |-> u, found |-> FALSE, status |-> 404]
                    /\ UNCHANGED <<ideal, served, temp_dirs>>
               ELSE IF ~OwnedBy(zip_info.value, u)
               THEN /\ Apply(got)
                    /\ last' = [op |-> "download", flip |-> ~last.flip, key |-> token,
                                user |-> u, found |-> TRUE, status |-> 403]
                    /\ UNCHANGED <<ideal, served, temp_dirs>>
               ELSE /\ Apply(del)
                    /\ last' = [op |-> "download", flip |-> ~last.flip, key |-> token,
                                user |-> u, found |-> TRUE, status |-> 200]
                    /\ ideal' = [ideal EXCEPT ![token] = NoEntry]
                    /\ served' = [served EXCEPT ![token] = @ + 1]
                    \* cleanup_temp_dir, lines 831-836, once the response is sent
                    /\ temp_dirs' = [temp_dirs EXCEPT ![token] = "removed"]
    /\ UNCHANGED <<now, owner>>
    /\ UNCHANGED <<pipeVars, calc>>

----------------------------------------------------------------------------
(* The extraction endpoints running concurrently on one event loop *)

CacheInit ==
    /\ redis_available = "unset"
    /\ redis_store = [k \in FullKeys |-> NoEntry]
    /\ memory_store = [k \in FullKeys |-> NoEntry]
    /\ now = 0
    /\ last = [op |-> "none", flip |-> FALSE]
    /\ ideal = [k \in Keys |-> NoEntry]
    /\ owner = [k \in Keys |-> NoUser]
    /\ served = [k \in Keys |-> 0]
    /\ temp_dirs = [k \in Keys |-> "none"]

PipeInit ==
    /\ db = [v \in Videos |-> NewVideo]
    /\ transcripts = [v \in Videos |-> <<>>]
    /\ settings_provider \in SettingsProviders
    /\ req = [r \in Reqs |-> Idle]

\* no pure function under evaluation
NoCalc == [fn |-> "", arg |-> <<>>, done |-> TRUE, out |-> 0]

Init == PipeInit /\ CacheInit /\ calc = NoCalc

Next ==
    \/ \E r \in Reqs : SingleStart(r)
    \/ \E r \in Reqs : SingleBegin(r)
    \/ \E r \in Reqs : SingleFinish(r)
    \/ \E r \in Reqs : StreamStart(r)
    \/ \E r \in Reqs : StreamYield(r)
    \/ \E r \in Reqs : StreamItemBegin(r)
    \/ \E r \in Reqs : StreamItemFinish(r)
    \/ \E r \in Reqs : StreamComplete(r)
    \/ \E r \in Reqs : BatchStart(r)
    \/ \E r \in Reqs : BatchItemBegin(r)
    \/ \E r \in Reqs : BatchItemFinish(r)
    \/ \E r \in Reqs : BatchReturn(r)

Spec == Init /\ [][Next]_vars

\* calls of the chain alone, stage by stage
NextChain ==
    \/ \E r \in Reqs : CallStart(r)
    \/ \E r \in Reqs : CallStep(r)
    \/ \E r \in Reqs : CallReturn(r)

SpecChain == Init /\ [][NextChain]_vars

\* single-item requests with the awaited call shown stage by stage
NextSingle ==
    \/ \E r \in Reqs : SingleStart(r)
    \/ \E r \in Reqs : SingleBegin(r)
    \/ \E r \in Reqs : SingleCallStep(r)
    \/ \E r \in Reqs : SingleCallEnd(r)

SpecSingle == Init /\ [][NextSingle]_vars

\* the cache alone: any sequence of calls and clock advances
NextCache == Tick \/ Set \/ Get \/ Exists \/ Delete

SpecCache == Init /\ [][NextCache]_vars

\* the download token: archives prepared and fetched by two users
NextDownload == Tick \/ Prepare \/ Download

SpecDownload == Init /\ [][NextDownload]_vars

----------------------------------------------------------------------------
(* Claims about the fallback chain (SpecChain) *)

OnlyCaption(t) == \A k \in 1..Len(t) : t[k].stage = "caption"

\* C1: a call made with AI fallback disabled (extract_transcript_caption_only,
\* or extract_transcript with use_ai_fallback = False) never invokes the local
\* Whisper transcriber or a remote provider, whatever the caption stage returns
C1_NoAiWhenDisabled ==
    \A r \in Reqs :
        (req[r].kind = "call" /\ ~req[r].use_ai) => OnlyCaption(req[r].trace)

\* a caption-only call has returned without captions
C1_Witness ==
    \E r \in Reqs :
        /\ req[r].kind = "call" /\ ~req[r].use_ai /\ req[r].pc = "returned"
        /\ req[r].fn = "caption_only"
        /\ req[r].ret = NoResult

Rank(stage) ==
    CASE stage = "caption" -> 1
      [] stage = "local" -> 2
      [] OTHER -> 3

\* the stage started at position k of trace t starts after every earlier
\* stage, each of them finished and none of them with content
StartedInOrder(t, k) ==
    \A j \in 1..(k - 1) :
        /\ Rank(t[j].stage) < Rank(t[k].stage)
        /\ t[j].ev # "content"
        /\ t[j].ev = "start" =>
              \E i \in (j + 1)..(k - 1) : t[i].stage = t[j].stage /\ t[i].ev # "start"

\* C2: within one call the stages are attempted in the order caption, local
\* Whisper, remote provider, one at a time; a stage starts only after every
\* earlier stage has finished without content, no stage starts after one
\* returned content, and a caption result is returned with method "caption"
C2_StagesInOrder ==
    \A r \in Reqs :
        req[r].kind = "call" =>
            LET t == req[r].trace
            IN /\ (t # <<>> => t[1] = Ev("caption", "start"))
               /\ \A k \in 1..Len(t) : t[k].ev = "start" => StartedInOrder(t, k)
               /\ \A k \in 1..Len(t) : t[k].ev = "content" => k = Len(t)
               /\ (req[r].pc \in {"finish", "returned"} /\ Ev("caption", "content") = t[Len(t)])
                     => req[r].ret = Result("caption")

\* a call went through all three stages and the remote provider returned content
C2_Witness ==
    \E r \in Reqs :
        /\ req[r].kind = "call" /\ req[r].pc = "returned"
        /\ req[r].ret = Result("ai")
        /\ \E k \in 1..Len(req[r].trace) : req[r].trace[k] = Ev("local", "error")

----------------------------------------------------------------------------
(* Claims about the endpoints (Spec) *)

InFlight(r, v) == req[r].pc = "extracting" /\ Cur(r) = v

\* C3: an attempt that has set transcript_status to "extracting" sets it to
\* "completed" or "failed" before its handler moves on or returns: no video is
\* left in "extracting" without a request working on it
C3_NoStuckExtracting ==
    \A v \in Videos :
        db[v].status = "extracting" => \E r \in Reqs : InFlight(r, v)

\* C4: at most one Transcript record exists per video, whatever the
\* interleaving of single-item requests and batch runs
C4_AtMostOneTranscript ==
    \A v \in Videos : Len(transcripts[v]) <= 1

\* two requests extracted the same video and the second insert was refused
C4_Witness ==
    \E r \in Reqs, v \in Videos :
        /\ req[r].kind = "single" /\ req[r].response = "error"
        /\ req[r].videos = <<v>>
        /\ Len(transcripts[v]) = 1

----------------------------------------------------------------------------
(* C5: the cache returns the latest live value *)

IdealGet(key) ==
    IF ideal[key].present /\ ~(now > ideal[key].expires)
    THEN Found(ideal[key].value) ELSE Absent

\* C5: get(key) returns the value of the most recent set(key) when that set
\* has not expired and no delete(key) followed it, and nothing otherwise;
\* exists(key) is TRUE exactly when get(key) would return a value
C5_GetReturnsLatestLiveSet ==
    /\ last.op = "get" => last.ret = IdealGet(last.key)
    /\ last.op = "exists" => last.ret = IdealGet(last.key).found

----------------------------------------------------------------------------
(* C6, C7: the download token *)

\* C6: a download is served only to the user stored with the token; a
\* request by another user that finds the token is answered 403, and a
\* request by another user never removes or changes the entry
C6_OnlyOwnerServed ==
    [][(last'.op = "download" /\ last'.flip # last.flip /\ last'.user # owner[last'.key])
         => /\ last'.status # 200
            /\ last'.found => last'.status = 403
            /\ redis_store' = redis_store
            /\ memory_store' = CleanupExpired(memory_store) \/ memory_store' = memory_store
            /\ served' = served]_vars

\* a user other than the owner asked for a live token and got 403
C6_Witness ==
    /\ last.op = "download" /\ last.status = 403
    /\ last.user # owner[last.key]
    /\ IdealGet(last.key) = Found(ZipInfo(owner[last.key]))

\* C7: a token is served at most once
C7_SingleUse == \A token \in Keys : served[token] <= 1

----------------------------------------------------------------------------
(* C8, C9: the events of the streaming batch *)

Streams == {r \in Reqs : req[r].kind = "stream"}

ExtractingEvents(r) == SelectSeq(req[r].events, LAMBDA e : e.status = "extracting")

\* C8: a streaming batch that has ended has emitted exactly one 'complete'
\* event, as its last event, with extracted + extracted_ai + failed = total,
\* extracted the number of items completed by caption, extracted_ai by an AI
\* method, failed the number that failed, total the number selected
C8_CompleteEventLast ==
    \A r \in Streams : req[r].pc = "done" =>
        LET e == req[r].events
            n == Len(e)
        IN /\ n >= 1
           /\ e[n].status = "complete"
           /\ \A k \in 1..(n - 1) : e[k].status # "complete"
           /\ e[n].extracted + e[n].extracted_ai + e[n].failed = e[n].total
           /\ e[n].total = Len(req[r].videos)
           /\ e[n].extracted = req[r].n_caption
           /\ e[n].extracted_ai = req[r].n_ai
           /\ e[n].failed = req[r].n_failed

\* C9: the 'extracting' events of a streaming batch are current = 1, 2, ...
\* in this order, each with total the number selected; the event of an item
\* is out before the extractor is invoked for it; and a batch that has ended
\* has emitted exactly one event for each selected item
C9_ProgressEventsInOrder ==
    \A r \in Streams :
        LET x == ExtractingEvents(r)
        IN /\ \A k \in 1..Len(x) : x[k].current = k /\ x[k].total = Len(req[r].videos)
           /\ req[r].calls <= Len(x)
           /\ req[r].pc \in {"gen_item", "extracting"} => Len(x) = req[r].i
           /\ req[r].pc = "gen_top" => Len(x) = req[r].i - 1
           /\ req[r].pc = "done" => Len(x) = Len(req[r].videos)

----------------------------------------------------------------------------
(* C10: a single-item request for a video that has a transcript *)

\* C10: the step of a single-item request that finds has_transcript true
\* returns the video as it is: the extractor is not called, nothing is
\* committed, no Transcript is created, status and error stay as they are
C10_NoEffectWhenHasTranscript ==
    [][\A r \in Reqs :
         (/\ req[r].kind = "single" /\ req[r].pc = "loaded"
          /\ req[r].sess[Cur(r)].has_transcript
          /\ req'[r] # req[r])
         => /\ req'[r].pc = "done" /\ req'[r].response = "unchanged"
            /\ req'[r].calls = 0 /\ req'[r].commits = 0
            /\ db' = db
            /\ transcripts' = transcripts]_vars

\* a single-item request was answered for a video that had a transcript
C10_Witness ==
    \E r \in Reqs :
        /\ req[r].kind = "single" /\ req[r].response = "unchanged"
        /\ \A v \in Videos : req[r].videos = <<v>> => db[v].has_transcript

----------------------------------------------------------------------------
(* C11: a single-item request whose provider has no credit (SpecSingle) *)

\* no captions, no local model installed, Replicate refuses for lack of credit
CreditTrace ==
    <<Ev("caption", "start"), Ev("caption", "none"), Ev("local", "skipped"),
      Ev("replicate", "start"), Ev("replicate", "api"),
      Ev("replicate", "insufficient_credit")>>

\* no other request has the video v of request r among its items
Alone(r, v) ==
    \A q \in Reqs \ {r} : \A k \in 1..Len(req[q].videos) : req[q].videos[k] # v

\* C11: a single-item request whose call found no captions, skipped the local
\* stage for want of a model and had Replicate fail for insufficient credit
\* ends with transcript_status "failed" and a transcript_error containing
\* "Insufficient credit"; it creates no Transcript and does not set
\* has_transcript, so the video has has_transcript false and no Transcript
C11_InsufficientCredit ==
    [][\A r \in Reqs :
         (/\ req[r].kind = "single" /\ req[r].pc = "finish"
          /\ req[r].trace = CreditTrace
          /\ req'[r].pc = "done")
         => LET v == Cur(r)
            IN /\ db'[v].status = "failed"
               /\ Contains(db'[v].error, "Insufficient credit")
               /\ transcripts'[v] = transcripts[v]
               /\ db'[v].has_transcript = db[v].has_transcript
               /\ Alone(r, v) => (~db'[v].has_transcript /\ transcripts'[v] = <<>>)]_vars

\* such a request has ended
C11_Witness ==
    \E r \in Reqs, v \in Videos :
        /\ req[r].kind = "single" /\ req[r].pc = "done" /\ req[r].videos = <<v>>
        /\ req[r].trace = CreditTrace
        /\ db[v].status = "failed" /\ Contains(db[v].error, "Insufficient credit")
        /\ ~db[v].has_transcript /\ transcripts[v] = <<>>

----------------------------------------------------------------------------
(* C12: the length of a stored transcript_error (Spec) *)

BatchRuns == {r \in Reqs : req[r].kind \in {"stream", "batch"}}

----------------------------------------------------------------------------
(* C13: an unknown provider (SpecChain) *)

RemoteStages == {"replicate", "siliconflow"}

\* the call of request r ended in the else branch of the provider dispatch
EndedAtConfig(r, ev) ==
    /\ req[r].kind = "call" /\ req[r].pc \in {"finish", "returned"}
    /\ req[r].trace[Len(req[r].trace)] = Ev("config", ev)

\* C13: when the effective provider (the caller's, else the configured one,
\* lower-cased) is neither "replicate" nor "siliconflow", no remote provider is
\* invoked, and a call that reaches the dispatch raises TranscriptionError:
\* "No transcription method available..." when no local model is installed,
\* "Unknown transcription provider: <provider>" otherwise
C13_UnknownProvider ==
    \A r \in Reqs :
        (req[r].kind = "call" /\ EffectiveProvider(req[r].provider) \notin RemoteStages) =>
            /\ \A k \in 1..Len(req[r].trace) : req[r].trace[k].stage \notin RemoteStages
            /\ req[r].pc = "remote_dispatch" => req[r].ret = Pending
            /\ EndedAtConfig(r, "no_model") => req[r].ret = TErr(MsgNoMethod)
            /\ EndedAtConfig(r, "has_model") =>
                  /\ req[r].ret.kind = "terr"
                  /\ Contains(req[r].ret.msg, "Unknown transcription provider")
                  /\ req[r].ret.msg = MsgUnknownProvider(EffectiveProvider(req[r].provider))

\* one call raised "No transcription method available", another one
\* "Unknown transcription provider"
C13_Witness ==
    \E r, q \in Reqs :
        /\ EndedAtConfig(r, "no_model") /\ req[r].pc = "returned"
        /\ req[r].ret = TErr(MsgNoMethod)
        /\ EndedAtConfig(q, "has_model") /\ req[q].pc = "returned"
        /\ req[q].ret = TErr(MsgUnknownProvider("local"))

----------------------------------------------------------------------------
(* C14: a failed audio download at a remote provider (SpecChain) *)

Count(t, e) == Cardinality({k \in 1..Len(t) : t[k] = e})

\* C14: when the audio download of a remote provider (replicate, siliconflow)
\* fails, the provider's API is not called, the download is not tried again,
\* and the call fails with a TranscriptionError: never with another exception,
\* never with a result
C14_DownloadFailure ==
    \A r \in Reqs : \A p \in RemoteStages :
        (req[r].kind = "call" /\ Count(req[r].trace, Ev(p, "no_audio")) > 0) =>
            /\ req[r].pc \in {"finish", "returned"}
            /\ Count(req[r].trace, Ev(p, "api")) = 0
            /\ Count(req[r].trace, Ev(p, "start")) = 1
            /\ Count(req[r].trace, Ev(p, "no_audio")) = 1
            /\ req[r].ret.kind = "terr"

----------------------------------------------------------------------------
(* services/whisper_local.py, replicate_transcribe.py,
   siliconflow_transcribe.py: _count_words. A text is a sequence of code
   points. *)

MaxLen == 4

\* space, "a", ideographic space U+3000, the CJK ideograph U+4E2D, the Hangul
\* syllable U+D55C
Alphabet == {32, 97, 12288, 20013, 54620}

Texts == UNION {[1..n -> Alphabet] : n \in 0..MaxLen}

\* the character class [\u4e00-\u9fff\u3400-\u4dbf\u3040-\u309f\u30a0-\u30ff]
IsCJK(c) ==
    \/ c \in 19968..40959
    \/ c \in 13312..19903
    \/ c \in 12352..12447
    \/ c \in 12448..12543

\* the characters str.split() separates on (str.isspace)
IsSpace(c) ==
    \/ c \in 9..13
    \/ c \in 28..32
    \/ c \in {133, 160, 5760}
    \/ c \in 8192..8202
    \/ c \in {8232, 8233, 8239, 8287, 12288}

\* len(re.findall(cjk, text))
FindAllCount(text) == Cardinality({k \in 1..Len(text) : IsCJK(text[k])})

\* (mutant) re.sub(cjk, '', text)
Sub_Remove(text) == SelectSeq(text, LAMBDA c : ~IsCJK(c))

\* re.sub(cjk, ' ', text)
Sub(text) == [k \in 1..Len(text) |-> IF IsCJK(text[k]) THEN 32 ELSE text[k]]

\* len(s.split()): the maximal runs of characters that are not whitespace
SplitCount(s) ==
    Cardinality({k \in 1..Len(s) : ~IsSpace(s[k]) /\ (k = 1 \/ IsSpace(s[k - 1]))})

count_words(text) == FindAllCount(text) + SplitCount(Sub(text))

\* a call of _count_words on a text
CountWords ==
    /\ calc.fn = "_count_words" /\ ~calc.done
    /\ calc' = [calc EXCEPT !.done = TRUE, !.out = count_words(calc.arg)]
    /\ UNCHANGED <<pipeVars, cacheVars, histVars>>

InitWords ==
    /\ PipeInit /\ CacheInit
    /\ calc \in {[fn |-> "_count_words", arg |-> t, done |-> FALSE, out |-> 0] : t \in Texts}

NextWords == CountWords

SpecWords == InitWords /\ [][NextWords]_vars

----------------------------------------------------------------------------
(* C15: what _count_words counts (SpecWords) *)

Counted == calc.fn = "_count_words" /\ calc.done

\* the words of a text outside its CJK characters: the maximal runs of
\* characters that are neither CJK nor whitespace
Runs(text) ==
    {k \in 1..Len(text) :
        /\ ~IsCJK(text[k]) /\ ~IsSpace(text[k])
        /\ k = 1 \/ IsCJK(text[k - 1]) \/ IsSpace(text[k - 1])}

----------------------------------------------------------------------------
(* services/transcript.py: _extract_caption_sync, the choice of the track *)

\* lines 198-203
lang_priority ==
    <<"en", "en-US", "en-GB", "it", "it-IT",
      "zh", "zh-Hans", "zh-Hant", "zh-TW", "zh-HK", "ja", "ko">>

\* the languages of the videos modelled ("fr" is not in the priority list)
Langs == {"en", "ja", "en-orig", "fr"}

\* the formats yt-dlp lists for one language
FormatLists == {<<"vtt">>, <<"vtt", "json3">>}

\* info['subtitles'] or info['automatic_captions']: language -> list of formats
TrackDicts == UNION {[D -> FormatLists] : D \in SUBSET Langs}

\* (mutant) any format of the language will do
HasJson3_AnyFormat(tracks, lang) == lang \in DOMAIN tracks

\* lines 210-216: the language is there and one of its formats has ext json3
HasJson3(tracks, lang) ==
    /\ lang \in DOMAIN tracks
    /\ \E k \in 1..Len(tracks[lang]) : tracks[lang][k] = "json3"

\* the loop of lines 209-218 (222-231) from position i of the list on
RECURSIVE Pick(_, _, _)
Pick(tracks, order, i) ==
    IF i > Len(order) THEN None
    ELSE IF HasJson3(tracks, order[i]) THEN order[i]
    ELSE Pick(tracks, order, i + 1)

NoTrack == [kind |-> "none", language |-> "unknown"]

\* lines 205-234: the track and language chosen
SelectTrack(subtitles, automatic_captions) ==
    LET m == Pick(subtitles, lang_priority, 1)
        a == Pick(automatic_captions, lang_priority \o <<"en-orig">>, 1)
    IN IF m # None THEN [kind |-> "manual", language |-> m]
       ELSE IF a # None THEN [kind |-> "automatic", language |-> a]
       ELSE NoTrack

\* a call of the selection on the tracks of a video
ChooseTrack ==
    /\ calc.fn = "select_track" /\ ~calc.done
    /\ calc' = [calc EXCEPT !.done = TRUE,
                            !.out = SelectTrack(calc.arg.subtitles, calc.arg.automatic_captions)]
    /\ UNCHANGED <<pipeVars, cacheVars, histVars>>

InitTracks ==
    /\ PipeInit /\ CacheInit
    /\ calc \in {[fn |-> "select_track",
                  arg |-> [subtitles |-> m, automatic_captions |-> a],
                  done |-> FALSE, out |-> NoTrack] : m \in TrackDicts, a \in TrackDicts}

NextTracks == ChooseTrack

SpecTracks == InitTracks /\ [][NextTracks]_vars

----------------------------------------------------------------------------
(* C16: the caption track chosen (SpecTracks) *)

Chosen == calc.fn = "select_track" /\ calc.done

\* the languages of the list that have a json3 track in the dictionary
Usable(tracks, order) ==
    {l \in DOMAIN tracks : /\ \E i \in 1..Len(order) : order[i] = l
                           /\ \E k \in 1..Len(tracks[l]) : tracks[l][k] = "json3"}

Pos(order, l) == CHOOSE i \in 1..Len(order) : order[i] = l

\* l is the language of the set that comes first in the list
Earliest(l, set, order) ==
    l \in set /\ \A o \in set : Pos(order, l) <= Pos(order, o)

\* C16: the track chosen depends only on the manual and automatic tracks
\* available: when some language of the priority list has a manual json3 track,
\* the manual track of the earliest such language is chosen, whatever the
\* automatic tracks are; otherwise the automatic json3 track of the earliest
\* language of the priority list followed by "en-orig"; otherwise none
C16_TrackSelection ==
    Chosen =>
        LET manual == Usable(calc.arg.subtitles, lang_priority)
            auto == Usable(calc.arg.automatic_captions, lang_priority \o <<"en-orig">>)
        IN /\ manual # {} =>
                 /\ calc.out.kind = "manual"
                 /\ Earliest(calc.out.language, manual, lang_priority)
           /\ (manual = {} /\ auto # {}) =>
                 /\ calc.out.kind = "automatic"
                 /\ Earliest(calc.out.language, auto, lang_priority \o <<"en-orig">>)
           /\ (manual = {} /\ auto = {}) => calc.out = NoTrack

\* manual "en" without json3 and manual "ja" with it, automatic "en" with
\* json3: the manual "ja" track is chosen
C16_Witness ==
    /\ Chosen
    /\ calc.arg.subtitles = [l \in {"en", "ja"} |-> IF l = "en" THEN <<"vtt">> ELSE <<"vtt", "json3">>]
    /\ calc.arg.automatic_captions = [l \in {"en"} |-> <<"vtt", "json3">>]
    /\ calc.out = [kind |-> "manual", language |-> "ja"]

----------------------------------------------------------------------------
(* routers/videos.py: GET /channels/{channel_id}/prepare-all-audio and
   routers/whisper.py: POST /whisper/models/{model_name}/download, as the
   generators of their event streams. calc holds the generator running:
   out is the sequence of events sent so far. *)

\* json.dumps({'error': message}): an event with no other field
ErrorOnly(message) == [error |-> message]

Gen(fn) ==
    [fn |-> fn, arg |-> <<>>, done |-> FALSE, out |-> <<>>, pc |-> "top",
     user |-> NoUser, total |-> 0, i |-> 1, completed |-> 0, failed |-> 0,
     last_percent |-> 0, temp_dir |-> "none",
     task |-> "none", queue |-> <<>>, error_occurred |-> None,
     model_name |-> ""]

\* lines 671-701: the query (the given ids, else the videos without a
\* transcript); an empty selection streams one event
AudioStart ==
    /\ calc.done
    /\ \E ids \in SUBSET Videos, u \in Users :
         LET videos == IF ids = {} THEN {v \in Videos : ~db[v].has_transcript} ELSE ids
             total == Cardinality(videos)
         IN calc' = IF total = 0
                    THEN [Gen("prepare_all_audio") EXCEPT
                             !.done = TRUE, !.user = u,
                             !.out = <<ErrorOnly("No pending videos to download")>>]
                    ELSE \* generate_progress starts: tempfile.mkdtemp(), line 705
                         [Gen("prepare_all_audio") EXCEPT !.user = u, !.total = total,
                                                          !.temp_dir = "exists"]
    /\ UNCHANGED <<pipeVars, cacheVars, histVars>>

\* line 713: the progress event of the next video
AudioYield ==
    /\ calc.fn = "prepare_all_audio" /\ ~calc.done /\ calc.pc = "top"
    /\ calc.i <= calc.total
    /\ calc' = [calc EXCEPT !.pc = "item",
                            !.out = Append(@, [status |-> "downloading",
                                               current |-> calc.completed + 1,
                                               total |-> calc.total])]
    /\ UNCHANGED <<pipeVars, cacheVars, histVars>>

\* lines 715-764: yt-dlp leaves a file, leaves none, or raises
AudioItem ==
    /\ calc.fn = "prepare_all_audio" /\ ~calc.done /\ calc.pc = "item"
    /\ \E o \in {"file", "no_file", "exception"} :
         calc' = [calc EXCEPT !.pc = "top", !.i = @ + 1,
                              !.completed = IF o = "file" THEN @ + 1 ELSE @,
                              !.failed = IF o = "file" THEN @ ELSE @ + 1]
    /\ UNCHANGED <<pipeVars, cacheVars, histVars>>

\* lines 766-772: nothing downloaded ends the stream, else the zipping event
AudioZip ==
    /\ calc.fn = "prepare_all_audio" /\ ~calc.done /\ calc.pc = "top"
    /\ calc.i > calc.total
    /\ calc' = IF calc.completed = 0
               THEN [calc EXCEPT !.done = TRUE, !.temp_dir = "removed",
                                 !.out = Append(@, ErrorOnly("Failed to download any audio files"))]
               ELSE [calc EXCEPT !.pc = "zip",
                                 !.out = Append(@, [status |-> "zipping",
                                                    completed |-> calc.completed,
                                                    failed |-> calc.failed])]
    /\ UNCHANGED <<pipeVars, cacheVars, histVars>>

\* lines 774-796: the archive is written and its token stored, then the ready
\* event is sent; an exception on the way (zipfile) is reported as an event
AudioReady ==
    /\ calc.fn = "prepare_all_audio" /\ ~calc.done /\ calc.pc = "zip"
    /\ \/ \E token \in Keys :
            /\ StoreToken(token, calc.user)
            /\ calc' = [calc EXCEPT !.done = TRUE, !.temp_dir = "stored",
                                    !.out = Append(@, [status |-> "ready", token |-> token,
                                                       completed |-> calc.completed,
                                                       failed |-> calc.failed])]
       \/ /\ calc' = [calc EXCEPT !.done = TRUE, !.temp_dir = "removed",
                                  !.out = Append(@, ErrorOnly(MsgOSError))]
          /\ UNCHANGED <<cacheVars, histVars>>
    /\ UNCHANGED pipeVars

\* whisper_local.py lines 63-69: the models of the faster-whisper backend
Models == {"tiny", "base", "small", "medium", "large-v3"}

\* the values download_model reports through progress_callback:
\* whisper_local.py lines 177, 184 and 193
Percents == {0, 100}

\* progress_callback, lines 122-129: it runs on the worker thread, which has
\* no event loop of its own; whether asyncio.get_event_loop() hands it the
\* server's loop or raises there (the report is then dropped by the except
\* branch) depends on the interpreter and the loop policy in use
Report(queue, percent, delivered) ==
    IF delivered THEN Append(queue, percent) ELSE queue

\* download_model line 199: the error of a failed download
MsgModelDownload == "Failed to download model: " \o MsgOSError

\* download_task line 138: any other exception of download_model
MsgModelOther == "Download failed: " \o MsgOSError

\* download_future.done()
TaskDone == {"returned", "raised"}

\* (mutant) error_occurred is not looked at
TerminalEvent_AlwaysCompleted(error_occurred, model_name) ==
    [status |-> "completed", percent |-> 100, model |-> model_name]

\* lines 170-173: the event sent after the download has ended
TerminalEvent(error_occurred, model_name) ==
    IF error_occurred # None
    THEN [status |-> "error", error |-> error_occurred, model |-> model_name]
    ELSE [status |-> "completed", percent |-> 100, model |-> model_name]

\* download_whisper_model, lines 103-145: an installed model streams one
\* event; otherwise download_task is handed to the executor and the first
\* event is sent
ModelStart ==
    /\ calc.done
    /\ \E model_name \in Models, installed \in BOOLEAN :
         calc' = IF installed
                 THEN [Gen("download_whisper_model") EXCEPT
                          !.done = TRUE,
                          !.model_name = model_name,
                          !.out = <<[status |-> "completed", percent |-> 100,
                                     model |-> model_name]>>]
                 ELSE [Gen("download_whisper_model") EXCEPT
                          !.pc = "loop",
                          !.task = "running",
                          !.model_name = model_name,
                          !.out = <<[status |-> "downloading", percent |-> 0,
                                     model |-> model_name]>>]
    /\ UNCHANGED <<pipeVars, cacheVars, histVars>>

\* download_task, lines 131-138, running download_model (whisper_local.py
\* lines 165-199) on the worker thread: the model turns out to be installed
\* by now (100 is reported), or the download starts (0 is reported) and then
\* ends well (100 is reported) or raises
ModelTask ==
    /\ calc.fn = "download_whisper_model" /\ ~calc.done
    /\ \E delivered \in BOOLEAN :
         \/ /\ calc.task = "running"
            /\ \/ calc' = [calc EXCEPT !.task = "returned",
                                       !.queue = Report(@, 100, delivered)]
               \/ calc' = [calc EXCEPT !.task = "downloading",
                                       !.queue = Report(@, 0, delivered)]
               \/ calc' = [calc EXCEPT !.task = "raised",
                                       !.error_occurred = MsgModelOther]
         \/ /\ calc.task = "downloading"
            /\ \/ calc' = [calc EXCEPT !.task = "returned",
                                       !.queue = Report(@, 100, delivered)]
               \/ calc' = [calc EXCEPT !.task = "raised",
                                       !.error_occurred = MsgModelDownload]
    /\ UNCHANGED <<pipeVars, cacheVars, histVars>>

\* lines 150-165, one turn of the loop: a report taken from the queue is sent
\* when it differs from the last one sent, and 100 ends the loop; with
\* nothing in the queue after a second, the loop ends once the download has
\* ended
ModelProgress ==
    /\ calc.fn = "download_whisper_model" /\ ~calc.done /\ calc.pc = "loop"
    /\ IF calc.queue # <<>>
       THEN LET percent == Head(calc.queue)
                fresh == percent # calc.last_percent
            IN calc' = [calc EXCEPT
                          !.queue = Tail(@),
                          !.last_percent = percent,
                          !.pc = IF fresh /\ percent >= 100 THEN "wait" ELSE "loop",
                          !.out = IF fresh
                                  THEN Append(@, [status |-> "downloading",
                                                  percent |-> percent,
                                                  model |-> calc.model_name])
                                  ELSE @]
       ELSE /\ calc.task \in TaskDone
            /\ calc' = [calc EXCEPT !.pc = "wait"]
    /\ UNCHANGED <<pipeVars, cacheVars, histVars>>

\* lines 167-173: the download is awaited and the last event is sent
ModelEnd ==
    /\ calc.fn = "download_whisper_model" /\ ~calc.done /\ calc.pc = "wait"
    /\ calc.task \in TaskDone
    /\ calc' = [calc EXCEPT !.done = TRUE,
                            !.out = Append(@, TerminalEvent(calc.error_occurred,
                                                            calc.model_name))]
    /\ UNCHANGED <<pipeVars, cacheVars, histVars>>

\* one client consumes the extraction stream
Listener == {CHOOSE r \in Reqs : TRUE}

\* the three progress streams
NextEvents ==
    \/ \E r \in Listener : StreamStart(r)
    \/ \E r \in Listener : StreamYield(r)
    \/ \E r \in Listener : StreamItemBegin(r)
    \/ \E r \in Listener : StreamItemFinish(r)
    \/ \E r \in Listener : StreamComplete(r)
    \/ AudioStart \/ AudioYield \/ AudioItem \/ AudioZip \/ AudioReady
    \/ ModelStart \/ ModelTask \/ ModelProgress \/ ModelEnd

SpecEvents == Init /\ [][NextEvents]_vars

----------------------------------------------------------------------------
(* C17: the status field of progress events (SpecEvents) *)

StatusValues == {"downloading", "extracting", "zipping", "ready", "complete", "error"}

HasStatus(e) == "status" \in DOMAIN e /\ e.status \in StatusValues

\* C17: every event sent on a progress stream (batch extraction,
\* prepare-all-audio, model download) has a status field whose value is one of
\* downloading, extracting, zipping, ready, complete, error; so have the
\* events that report an error or an empty selection
C17_EventsHaveStatus ==
    /\ \A r \in Reqs : req[r].kind = "stream" =>
          \A k \in 1..Len(req[r].events) : HasStatus(req[r].events[k])
    /\ calc.fn \in {"prepare_all_audio", "download_whisper_model"} =>
          \A k \in 1..Len(calc.out) : HasStatus(calc.out[k])

----------------------------------------------------------------------------
(* C18: the backend of the cache (SpecCache) *)

CacheOps == {"set", "get", "exists", "delete"}

\* the store a call is served by once the backend has been chosen
ChosenBackend(available) == IF available = "yes" THEN "redis" ELSE "memory"

\* C18: the backend is chosen at the first use and never changes: every set,
\* get, delete and exists is served by the backend chosen (Redis or the
\* in-process map), and once the in-process map has been chosen no call is
\* served by Redis again
C18_BackendSticky ==
    /\ [][redis_available # "unset" => redis_available' = redis_available]_vars
    /\ [](last.op \in CacheOps =>
            /\ redis_available # "unset"
            /\ last.backend = ChosenBackend(redis_available))

----------------------------------------------------------------------------
(* C19, C20: the local stage (SpecChain) *)

\* the local stage of the call of r ran and failed with one of these events
LocalFailedAt(r, k, evs) ==
    /\ req[r].kind = "call" /\ k \in 1..Len(req[r].trace)
    /\ req[r].trace[k].stage = "local" /\ req[r].trace[k].ev \in evs

\* the call of r went on to the provider dispatch after event k
WentOnToRemote(r, k) ==
    \/ k = Len(req[r].trace) /\ req[r].pc = "remote_dispatch" /\ req[r].ret = Pending
    \/ k < Len(req[r].trace) /\ req[r].trace[k + 1].stage \in RemoteStages \cup {"config"}

\* C19: with a local model installed, a failure of the local stage
\* (TranscriptionError of whisper_local, or any other exception raised inside
\* it) is not raised by extract_transcript: the remote stage is attempted and
\* alone decides what the call returns
C19_LocalFailureSwallowed ==
    \A r \in Reqs : \A k \in 1..Len(req[r].trace) :
        LocalFailedAt(r, k, {"error", "exception"}) => WentOnToRemote(r, k)

\* C20: when no local Whisper model is installed the local stage is skipped:
\* nothing is raised, the local transcriber is not called (no audio is
\* downloaded for it), and the provider dispatch comes next
C20_SkippedWithoutModel ==
    \A r \in Reqs : \A k \in 1..Len(req[r].trace) :
        LocalFailedAt(r, k, {"skipped"}) =>
            /\ WentOnToRemote(r, k)
            /\ \A j \in 1..Len(req[r].trace) : req[r].trace[j].stage = "local" => j = k

\* a call skipped the local stage and the remote provider returned content
C20_Witness ==
    \E r \in Reqs :
        /\ req[r].kind = "call" /\ req[r].pc = "returned"
        /\ req[r].trace = <<Ev("caption", "start"), Ev("caption", "none"),
                            Ev("local", "skipped"), Ev("replicate", "start"),
                            Ev("replicate", "api"), Ev("replicate", "content")>>
        /\ req[r].ret = Result("ai")

----------------------------------------------------------------------------
(* C21, C22: the status of a video under concurrent requests (Spec) *)

AllowedTransitions ==
    {<<"pending", "extracting">>, <<"failed", "extracting">>,
     <<"extracting", "completed">>, <<"extracting", "failed">>}

\* C21: transcript_status changes only along pending -> extracting,
\* failed -> extracting, extracting -> completed and extracting -> failed,
\* under any interleaving of single-item requests and batch runs; "completed"
\* is never left
C21_StatusTransitions ==
    [][\A v \in Videos :
          db'[v].status # db[v].status =>
              <<db[v].status, db'[v].status>> \in AllowedTransitions]_vars

\* C22: at most one extraction attempt per video is in flight at any time: no
\* request sets "extracting" and calls the extractor for a video on which
\* another request's attempt is still running
C22_OneAttemptInFlight ==
    \A v \in Videos : Cardinality({r \in Reqs : InFlight(r, v)}) <= 1

----------------------------------------------------------------------------
(* C23: a consumer that disconnects from the progress stream *)

\* streaming batch runs whose consumers may disconnect
NextDisconnect ==
    \/ \E r \in Reqs : StreamStart(r)
    \/ \E r \in Reqs : StreamYield(r)
    \/ \E r \in Reqs : StreamItemBegin(r)
    \/ \E r \in Reqs : StreamItemFinish(r)
    \/ \E r \in Reqs : StreamComplete(r)
    \/ \E r \in Reqs : StreamDisconnect(r)

SpecDisconnect == Init /\ [][NextDisconnect]_vars

\* C23: when the consumer of the batch progress stream disconnects while an
\* item is being extracted, the attempt still runs to its end and its terminal
\* status is committed: completed with a Transcript, or failed with an error
C23_DisconnectKeepsAttempt ==
    [][\A r \in Reqs :
          (/\ req[r].kind = "stream" /\ req[r].pc = "extracting"
           /\ req'[r].pc # "extracting"
           /\ Disconnected(r) \/ req'[r].response = "disconnected") =>
              LET v == Cur(r)
              IN \/ db'[v].status = "completed" /\ transcripts'[v] # <<>>
                 \/ db'[v].status = "failed" /\ db'[v].error # None]_vars

----------------------------------------------------------------------------
(* C24, C25: the items of a batch run (Spec) *)

\* the streaming run r is at its item and that video has a transcript by now
TurnOfCompleted(r, pc) ==
    /\ req[r].kind = "stream" /\ req[r].pc = pc
    /\ req[r].i <= Len(req[r].videos)
    /\ db[Cur(r)].has_transcript

\* C24: in the streaming batch an item that already has a transcript when its
\* turn comes is skipped: no progress event counts it in current/total, the
\* extractor is not invoked for it, and none of extracted, extracted_ai,
\* failed is incremented for it
C24_CompletedItemSkipped ==
    [][\A r \in Reqs :
          /\ (TurnOfCompleted(r, "gen_top") /\ req'[r] # req[r]) =>
                /\ req'[r].events = req[r].events
                /\ req'[r].pc = "gen_top" /\ req'[r].i = req[r].i + 1
          /\ (TurnOfCompleted(r, "gen_item") /\ req'[r] # req[r]) =>
                /\ req'[r].pc = "gen_top" /\ req'[r].i = req[r].i + 1
                /\ req'[r].calls = req[r].calls
                /\ req'[r].extracted = req[r].extracted
                /\ req'[r].extracted_ai = req[r].extracted_ai
                /\ req'[r].failed = req[r].failed]_vars

Terminal == {"completed", "failed"}

\* the run r has committed a terminal status for each of its items before k
EarlierItemsDone(r, k) ==
    \A j \in 1..(k - 1) : req[r].sess[req[r].videos[j]].status \in Terminal

\* C25: a batch run (streaming or not) processes its items one after the
\* other: an item is set to "extracting" only after the run has committed a
\* terminal status for every earlier item, and whatever way an item's attempt
\* ends, the run goes on to the next item
C25_ItemsSequential ==
    [][\A r \in Reqs : req[r].kind \in {"stream", "batch"} =>
          /\ (req[r].pc # "extracting" /\ req'[r].pc = "extracting") =>
                EarlierItemsDone(r, req[r].i)
          /\ (req[r].pc = "extracting" /\ req'[r].pc # "extracting") =>
                /\ req'[r].pc \in {"gen_top", "batch_top"}
                /\ req'[r].i = req[r].i + 1
                /\ req'[r].sess[Cur(r)].status \in Terminal]_vars

----------------------------------------------------------------------------
(* C26: the temporary directory of prepare_all_audio *)

\* archives are prepared, tokens age, and users download
NextTemp ==
    \/ AudioStart \/ AudioYield \/ AudioItem \/ AudioZip \/ AudioReady
    \/ Tick \/ Download

SpecTemp == Init /\ [][NextTemp]_vars

\* a download of the token can still find its entry, in either store
Downloadable(token) ==
    LET k == FullKey(token)
    IN \/ redis_store[k].present /\ ~(now > redis_store[k].expires)
       \/ memory_store[k].present /\ ~(memory_store[k].expires < now)

\* C26: the temporary directory of prepare_all_audio is removed on every exit
\* path: when the run raises or downloads no file, once its token has been
\* downloaded, and when the token expires without a download. Nothing but the
\* run and the download of the token removes it, so a directory that is still
\* there belongs to a run in progress or to a token that can still be downloaded
C26_TempDirsRemoved ==
    /\ (calc.fn = "prepare_all_audio" /\ calc.temp_dir = "exists") => ~calc.done
    /\ \A token \in Keys : temp_dirs[token] = "exists" => Downloadable(token)

----------------------------------------------------------------------------
(* C27: the worker threads (services/*.py _executor, routers/videos.py) *)

\* ThreadPoolExecutor(max_workers=2): transcript.py line 130, whisper_local.py
\* line 24, replicate_transcribe.py line 49, siliconflow_transcribe.py line 20
max_workers == 2

\* the executor on which the operation of a call at position pc runs, for the
\* provider of its remote stage: each module submits to its own _executor;
\* the SiliconFlow API call is awaited on the event loop
ExecutorOf(pc, provider) ==
    CASE pc = "caption_run" -> "transcript"
      [] pc = "local_run" -> "whisper_local"
      [] pc = "remote_run" -> provider
      [] pc = "remote_api" /\ provider = "replicate" -> "replicate"
      [] OTHER -> "none"

\* the calls that have an operation on a worker thread of the executor: with
\* NumReqs calls no executor is ever asked for more than max_workers threads,
\* so every operation submitted is running
OnExecutor(e) ==
    {r \in Reqs : /\ req[r].kind = "call" /\ req[r].trace # <<>>
                  /\ ExecutorOf(req[r].pc, RunningProvider(req[r])) = e}

Executors == {"transcript", "whisper_local", "replicate", "siliconflow"}

\* prepare_all_audio runs yt-dlp on the default executor of the loop
\* (run_in_executor(None, ...), line 739)
OnDefaultExecutor ==
    IF calc.fn = "prepare_all_audio" /\ ~calc.done /\ calc.pc = "item" THEN 1 ELSE 0

BlockingOperations ==
    Cardinality(UNION {OnExecutor(e) : e \in Executors}) + OnDefaultExecutor

\* calls of the chain next to the downloads of an audio-preparation run
NextPools ==
    \/ \E r \in Reqs : CallStart(r)
    \/ \E r \in Reqs : CallStep(r)
    \/ \E r \in Reqs : CallReturn(r)
    \/ AudioStart \/ AudioYield \/ AudioItem

SpecPools == Init /\ [][NextPools]_vars

\* C27: at most two blocking operations (caption fetches, audio downloads,
\* local inferences, provider calls on a worker thread) are in flight at any
\* time in the process, whatever requests and audio-preparation runs are active
C27_AtMostTwoBlocking ==
    BlockingOperations <= max_workers

----------------------------------------------------------------------------
(* C28, C29: the columns of a video at rest (Spec) *)

\* request r is in progress and video v is one of its items
WorksOn(r, v) ==
    /\ req[r].pc \notin {"idle", "done"}
    /\ \E k \in 1..Len(req[r].videos) : req[r].videos[k] = v

Quiet(v) == \A r \in Reqs : ~WorksOn(r, v)

\* C28: whenever no request is in progress for a video, has_transcript is true
\* exactly when transcript_status is "completed", and exactly when a
\* Transcript record exists for the video
C28_ColumnsAgree ==
    \A v \in Videos :
        Quiet(v) => /\ db[v].has_transcript <=> db[v].status = "completed"
                    /\ db[v].has_transcript <=> transcripts[v] # <<>>

\* C29: a row whose attempt has ended carries an error text exactly when the
\* attempt failed: transcript_error is empty when transcript_status is
\* 'completed' and non-empty when it is 'failed', whichever of the three
\* endpoints ran the attempt and whatever the row held before it.
C29_ErrorMatchesStatus ==
    \A v \in Videos :
        /\ db[v].status = "completed" => db[v].error = None
        /\ db[v].status = "failed" => db[v].error # None

----------------------------------------------------------------------------
(* C30: the event stream of a model download (SpecModel) *)

NextModel == ModelStart \/ ModelTask \/ ModelProgress \/ ModelEnd

\* the server's event loop keeps running the generator: a turn of its loop or
\* its last step that stays possible is taken (wait_for gives up after one
\* second, line 154)
SpecModel ==
    /\ Init /\ [][NextModel]_vars
    /\ WF_vars(ModelProgress) /\ WF_vars(ModelEnd)

\* the stream of generate_progress: download_model has been called
Downloading == calc.fn = "download_whisper_model" /\ calc.task # "none"

IsTerminal(e) == e.status \in {"error", "completed"}

EventsInOrder ==
    Downloading =>
        LET out == calc.out
            n == Len(out)
        IN /\ n >= 1
           /\ out[1] = [status |-> "downloading", percent |-> 0,
                        model |-> calc.model_name]
           /\ \A k \in 1..n : IsTerminal(out[k]) => calc.done /\ k = n
           /\ calc.done =>
                 /\ IsTerminal(out[n])
                 /\ calc.task \in TaskDone
                 /\ out[n].status = "error" <=> calc.task = "raised"
                 /\ calc.task = "raised" =>
                       out[n] = [status |-> "error", error |-> calc.error_occurred,
                                 model |-> calc.model_name]
                 /\ calc.task = "returned" =>
                       out[n] = [status |-> "completed", percent |-> 100,
                                 model |-> calc.model_name]

\* C30: the stream of a model download starts with a 'downloading' event of
\* percent 0; once download_model has returned or raised the stream ends; it
\* sends exactly one terminal event, as its last event, which is 'error' with
\* the failure message when download_model raised and only then, and
\* 'completed' with percent 100 otherwise.
C30_DownloadStream ==
    /\ []EventsInOrder
    /\ (Downloading /\ calc.task \in TaskDone) ~> calc.done

C30_Witness ==
    /\ Downloading /\ calc.done /\ calc.task = "raised"
    /\ Len(calc.out) >= 2
    /\ calc.out[Len(calc.out)].status = "error"
    /\ calc.out[Len(calc.out)].error = MsgModelDownload

====
